---- MODULE Spec2Model ----
(***************************************************************************)
(* Model of app-mac/src-tauri/src/lib.rs: the three commands greet,        *)
(* set_always_on_top and is_always_on_top, and the bootstrap run().        *)
(*                                                                         *)
(* The handlers are operators that return what one invocation does: the    *)
(* value handed back to the caller, the host's window flags afterwards,    *)
(* the requests made to the host window, and whether the handler panicked. *)
(* The host runtime (builder, dispatcher, windows) is the environment; its *)
(* window is modelled from the contract the specification gives for it.    *)
(***************************************************************************)
EXTENDS Naturals, Sequences, FiniteSets

VARIABLES
    pc,        \* position of run(): see RunStates
    plugins,   \* plugins attached to the builder, in order
    handlers,  \* command names installed by invoke_handler
    launch,    \* outcome of Builder::run: "pending", "ok" or "failed"
    panicMsg,  \* message of the panic that ended the process, or ""
    supported, \* host: the platform supports the always-on-top attribute
    open,      \* host: window -> the window exists (is not closed)
    flag,      \* host: window -> always-on-top attribute
    last,      \* the most recent invocation and the answer it got
    hostLog,   \* requests the most recent invocation made to the host window
    tick,      \* alternates at every dispatched command
    lastSet,   \* history: window -> {b} if the last successful setter on it
               \*          was given b, {} if no setter succeeded on it yet
    hostChanged, \* history: window -> the host changed the flag after the
               \*          last successful setter on it
    greeted    \* history: <<name, returned string>> of every greet call

vars == <<pc, plugins, handlers, launch, panicMsg, supported, open, flag, last,
          hostLog, tick, lastSet, hostChanged, greeted>>

-----------------------------------------------------------------------------
(* Bounds and input sets *)

NumWindows == 2

Windows == 1..NumWindows

\* Strings that are formatted are sequences of characters.
Names == { <<>>, <<"X">>, <<"{", "}">> }

RunStates == {"start", "opener_attached", "http_attached", "handler_installed",
              "running", "expect", "returned", "panicked"}

-----------------------------------------------------------------------------
(* Results *)

Ok(v) == [tag |-> "Ok", val |-> v]

Err(s) == [tag |-> "Err", val |-> s]

Unit == "()"

-----------------------------------------------------------------------------
(* The host window.  A request is accepted when the platform supports the  *)
(* attribute and the window still exists, and rejected otherwise.          *)

HostErrors == {"destroyed", "unsupported"}

HostErrorOf(w) == IF ~open[w] THEN "destroyed" ELSE "unsupported"

HostAccepts(w) == supported /\ open[w]

\* Window::set_always_on_top(enabled): the outcome and the flags afterwards.
HostSetAlwaysOnTop(w, enabled) ==
    IF HostAccepts(w)
    THEN [ok |-> TRUE, err |-> "none", flag |-> [flag EXCEPT ![w] = enabled]]
    ELSE [ok |-> FALSE, err |-> HostErrorOf(w), flag |-> flag]

\* Window::is_always_on_top(): the outcome and the value read.
HostIsAlwaysOnTop(w) ==
    IF HostAccepts(w)
    THEN [ok |-> TRUE, err |-> "none", val |-> flag[w]]
    ELSE [ok |-> FALSE, err |-> HostErrorOf(w), val |-> FALSE]

\* e.to_string(): the rendering of a host error.
ToString(e) ==
    CASE e = "destroyed"   -> "window has been destroyed"
      [] e = "unsupported" -> "operation not supported on this platform"

-----------------------------------------------------------------------------
(* The command handlers.  Each returns                                     *)
(*   ret   : the value handed back to the caller,                          *)
(*   flag  : the host's window flags after the call,                       *)
(*   log   : the requests made to the host window, in order,               *)
(*   panic : whether the handler panicked.                                 *)

HelloPrefix == <<"H", "e", "l", "l", "o", ",", " ">>

GreetSuffix == <<"!", " ", "Y", "o", "u", "'", "v", "e", " ", "b", "e", "e", "n",
                 " ", "g", "r", "e", "e", "t", "e", "d", " ", "f", "r", "o", "m",
                 " ", "R", "u", "s", "t", "!">>

\* Variant: the argument is left out of the formatted string.
greet_NoName(name) ==
    [ret |-> HelloPrefix \o GreetSuffix,
     flag |-> flag, log |-> <<>>, panic |-> FALSE]

\* Variant: the greeting carries state kept between calls.
greet_Stateful(name) ==
    [ret |-> HelloPrefix \o name \o GreetSuffix \o (IF tick THEN <<"!">> ELSE <<>>),
     flag |-> flag, log |-> <<>>, panic |-> FALSE]

\* format!("Hello, {}! You've been greeted from Rust!", name)
greet(name) ==
    [ret |-> HelloPrefix \o name \o GreetSuffix,
     flag |-> flag, log |-> <<>>, panic |-> FALSE]

\* Variant: the argument is not passed on to the host.
set_always_on_top_IgnoresArg(window, enabled) ==
    LET r == HostSetAlwaysOnTop(window, TRUE)
    IN  [ret |-> IF r.ok THEN Ok(Unit) ELSE Err(ToString(r.err)),
         flag |-> r.flag,
         log |-> << [op |-> "set_always_on_top", win |-> window,
                     arg |-> TRUE, ok |-> r.ok, err |-> r.err] >>,
         panic |-> FALSE]

\* Variant: a rejected request is made a second time.
set_always_on_top_Retry(window, enabled) ==
    LET r == HostSetAlwaysOnTop(window, enabled)
        req == [op |-> "set_always_on_top", win |-> window,
                arg |-> enabled, ok |-> r.ok, err |-> r.err]
    IN  [ret |-> IF r.ok THEN Ok(Unit) ELSE Err(ToString(r.err)),
         flag |-> r.flag,
         log |-> IF r.ok THEN <<req>> ELSE <<req, req>>,
         panic |-> FALSE]

\* Variant: the window of the previous call is kept and acted on.
set_always_on_top_KeptHandle(window, enabled) ==
    LET target == IF last.cmd \in {"set_always_on_top", "is_always_on_top"}
                  THEN last.win ELSE window
        r == HostSetAlwaysOnTop(target, enabled)
    IN  [ret |-> IF r.ok THEN Ok(Unit) ELSE Err(ToString(r.err)),
         flag |-> r.flag,
         log |-> << [op |-> "set_always_on_top", win |-> target,
                     arg |-> enabled, ok |-> r.ok, err |-> r.err] >>,
         panic |-> FALSE]

\* window.set_always_on_top(enabled).map_err(|e| e.to_string())?; Ok(())
set_always_on_top(window, enabled) ==
    LET r == HostSetAlwaysOnTop(window, enabled)
    IN  [ret |-> IF r.ok THEN Ok(Unit) ELSE Err(ToString(r.err)),
         flag |-> r.flag,
         log |-> << [op |-> "set_always_on_top", win |-> window,
                     arg |-> enabled, ok |-> r.ok, err |-> r.err] >>,
         panic |-> FALSE]

\* Variant: the host's answer is unwrapped instead of converted.
is_always_on_top_Unwrap(window) ==
    LET r == HostIsAlwaysOnTop(window)
    IN  [ret |-> IF r.ok THEN Ok(r.val) ELSE Err(ToString(r.err)),
         flag |-> flag,
         log |-> << [op |-> "is_always_on_top", win |-> window,
                     ok |-> r.ok, err |-> r.err] >>,
         panic |-> ~r.ok]

\* Variant: the query writes the attribute it reads.
is_always_on_top_Writes(window) ==
    LET r == HostIsAlwaysOnTop(window)
        w == HostSetAlwaysOnTop(window, TRUE)
    IN  [ret |-> IF r.ok THEN Ok(r.val) ELSE Err(ToString(r.err)),
         flag |-> w.flag,
         log |-> << [op |-> "is_always_on_top", win |-> window,
                     ok |-> r.ok, err |-> r.err] >>,
         panic |-> FALSE]

\* Variant: the value given to the last successful setter is remembered
\* and returned.
is_always_on_top_Cached(window) ==
    LET r == HostIsAlwaysOnTop(window)
        v == IF lastSet[window] # {} THEN TRUE \in lastSet[window] ELSE r.val
    IN  [ret |-> IF r.ok THEN Ok(v) ELSE Err(ToString(r.err)),
         flag |-> flag,
         log |-> << [op |-> "is_always_on_top", win |-> window,
                     ok |-> r.ok, err |-> r.err] >>,
         panic |-> FALSE]

\* window.is_always_on_top().map_err(|e| e.to_string())
is_always_on_top(window) ==
    LET r == HostIsAlwaysOnTop(window)
    IN  [ret |-> IF r.ok THEN Ok(r.val) ELSE Err(ToString(r.err)),
         flag |-> flag,
         log |-> << [op |-> "is_always_on_top", win |-> window,
                     ok |-> r.ok, err |-> r.err] >>,
         panic |-> FALSE]

-----------------------------------------------------------------------------
(* run() *)

\* Variant: one command is left out of the handler list.
RegisteredCommands_Missing == {"greet", "set_always_on_top"}

\* tauri::generate_handler![greet, set_always_on_top, is_always_on_top]
RegisteredCommands == {"greet", "set_always_on_top", "is_always_on_top"}

\* .expect("error while running tauri application")
ExpectMessage == "error while running tauri application"

HandlerPanicMessage == "command handler panicked"

Init ==
    /\ pc = "start"
    /\ plugins = <<>>
    /\ handlers = {}
    /\ launch = "pending"
    /\ panicMsg = ""
    /\ supported \in BOOLEAN
    /\ open = [w \in Windows |-> TRUE]
    /\ flag \in [Windows -> BOOLEAN]
    /\ last = [cmd |-> "none"]
    /\ hostLog = <<>>
    /\ tick = FALSE
    /\ lastSet = [w \in Windows |-> {}]
    /\ hostChanged = [w \in Windows |-> FALSE]
    /\ greeted = {}

hostVars == <<supported, open, flag>>

callVars == <<last, hostLog, tick, lastSet, hostChanged, greeted>>

\* .plugin(tauri_plugin_opener::init())
PluginOpener ==
    /\ pc = "start"
    /\ plugins' = Append(plugins, "opener")
    /\ pc' = "opener_attached"
    /\ UNCHANGED <<handlers, launch, panicMsg, hostVars, callVars>>

\* .plugin(tauri_plugin_http::init())
PluginHttp ==
    /\ pc = "opener_attached"
    /\ plugins' = Append(plugins, "http")
    /\ pc' = "http_attached"
    /\ UNCHANGED <<handlers, launch, panicMsg, hostVars, callVars>>

\* .invoke_handler(tauri::generate_handler![...])
InvokeHandler ==
    /\ pc = "http_attached"
    /\ handlers' = RegisteredCommands
    /\ pc' = "handler_installed"
    /\ UNCHANGED <<plugins, launch, panicMsg, hostVars, callVars>>

\* .run(tauri::generate_context!()): the application launches and runs ...
RunLaunch ==
    /\ pc = "handler_installed"
    /\ launch' = "ok"
    /\ pc' = "running"
    /\ UNCHANGED <<plugins, handlers, panicMsg, hostVars, callVars>>

\* ... or fails to launch: run returns Err before any command is dispatched.
RunLaunchFails ==
    /\ pc = "handler_installed"
    /\ launch' = "failed"
    /\ pc' = "expect"
    /\ UNCHANGED <<plugins, handlers, panicMsg, hostVars, callVars>>

\* The application exits: run returns Ok(()).
RunExit ==
    /\ pc = "running"
    /\ pc' = "expect"
    /\ UNCHANGED <<plugins, handlers, launch, panicMsg, hostVars, callVars>>

\* Variant: the result of run is dropped instead of expected.
Expect_Dropped ==
    /\ pc = "expect"
    /\ pc' = "returned"
    /\ UNCHANGED <<plugins, handlers, launch, panicMsg, hostVars, callVars>>

\* .expect("error while running tauri application")
Expect ==
    /\ pc = "expect"
    /\ IF launch = "ok"
       THEN pc' = "returned" /\ panicMsg' = panicMsg
       ELSE pc' = "panicked" /\ panicMsg' = ExpectMessage
    /\ UNCHANGED <<plugins, handlers, launch, hostVars, callVars>>

-----------------------------------------------------------------------------
(* The dispatcher: a command of the front-end is handed to its handler.    *)

\* What every dispatched call does with the handler's outcome r.
Dispatched(r) ==
    /\ flag' = r.flag
    /\ hostLog' = r.log
    /\ tick' = ~tick
    /\ pc' = IF r.panic THEN "panicked" ELSE pc
    /\ panicMsg' = IF r.panic THEN HandlerPanicMessage ELSE panicMsg
    /\ UNCHANGED <<plugins, handlers, launch, supported, open>>

InvokeGreet(name) ==
    /\ pc = "running"
    /\ "greet" \in handlers
    /\ LET r == greet(name)
       IN  /\ Dispatched(r)
           /\ last' = [cmd |-> "greet", name |-> name, res |-> Ok(r.ret)]
           /\ greeted' = greeted \cup {<<name, r.ret>>}
    /\ UNCHANGED <<lastSet, hostChanged>>

InvokeSetAlwaysOnTop(w, enabled) ==
    /\ pc = "running"
    /\ "set_always_on_top" \in handlers
    /\ LET r == set_always_on_top(w, enabled)
       IN  /\ Dispatched(r)
           /\ last' = [cmd |-> "set_always_on_top", win |-> w, arg |-> enabled,
                       res |-> r.ret]
           /\ IF r.ret.tag = "Ok"
              THEN /\ lastSet' = [lastSet EXCEPT ![w] = {enabled}]
                   /\ hostChanged' = [hostChanged EXCEPT ![w] = FALSE]
              ELSE UNCHANGED <<lastSet, hostChanged>>
    /\ UNCHANGED greeted

InvokeIsAlwaysOnTop(w) ==
    /\ pc = "running"
    /\ "is_always_on_top" \in handlers
    /\ LET r == is_always_on_top(w)
       IN  /\ Dispatched(r)
           /\ last' = [cmd |-> "is_always_on_top", win |-> w, res |-> r.ret]
    /\ UNCHANGED <<lastSet, hostChanged, greeted>>

-----------------------------------------------------------------------------
(* The host outside the commands *)

\* The host changes a window's attribute without going through a command.
HostToggle(w) ==
    /\ pc = "running"
    /\ HostAccepts(w)
    /\ flag' = [flag EXCEPT ![w] = ~flag[w]]
    /\ hostChanged' = [hostChanged EXCEPT ![w] = lastSet[w] # {}]
    /\ UNCHANGED <<pc, plugins, handlers, launch, panicMsg, supported, open,
                   last, hostLog, tick, lastSet, greeted>>

\* A window is closed.
CloseWindow(w) ==
    /\ pc = "running"
    /\ open[w]
    /\ open' = [open EXCEPT ![w] = FALSE]
    /\ UNCHANGED <<pc, plugins, handlers, launch, panicMsg, supported, flag,
                   callVars>>

Next ==
    \/ PluginOpener
    \/ PluginHttp
    \/ InvokeHandler
    \/ RunLaunch
    \/ RunLaunchFails
    \/ RunExit
    \/ Expect
    \/ \E name \in Names : InvokeGreet(name)
    \/ \E w \in Windows, enabled \in BOOLEAN : InvokeSetAlwaysOnTop(w, enabled)
    \/ \E w \in Windows : InvokeIsAlwaysOnTop(w)
    \/ \E w \in Windows : HostToggle(w)
    \/ \E w \in Windows : CloseWindow(w)

Spec == Init /\ [][Next]_vars

-----------------------------------------------------------------------------
(* Steps of the dispatcher, as seen in a pair of states *)

CallStep == tick' # tick

SetStep == CallStep /\ last'.cmd = "set_always_on_top"

GetStep == CallStep /\ last'.cmd = "is_always_on_top"

GreetStep == CallStep /\ last'.cmd = "greet"

\* s contains t as a contiguous piece.
Contains(s, t) ==
    \E i \in 0..(Len(s) - Len(t)) : SubSeq(s, i + 1, i + Len(t)) = t

-----------------------------------------------------------------------------
\* C1: on a window that supports the attribute (the platform supports it and
\* the window exists), once set_always_on_top(b) has returned Ok(()) and
\* nothing has changed the flag since (no later successful setter on that
\* window, no change by the host), is_always_on_top on that window returns
\* Ok(b).
C1_SetThenGet ==
    \A w \in Windows :
        ( /\ last.cmd = "is_always_on_top"
          /\ last.win = w
          /\ HostAccepts(w)
          /\ lastSet[w] # {}
          /\ ~hostChanged[w] )
        => /\ last.res.tag = "Ok"
           /\ last.res.val \in lastSet[w]

\* A getter answered Ok(TRUE) on one window after set(TRUE), while the last
\* successful setter on another window was given FALSE.
C1_Witness ==
    /\ last.cmd = "is_always_on_top"
    /\ HostAccepts(last.win)
    /\ lastSet[last.win] = {TRUE}
    /\ ~hostChanged[last.win]
    /\ last.res.tag = "Ok"
    /\ last.res.val = TRUE
    /\ \E v \in Windows : v # last.win /\ lastSet[v] = {FALSE} /\ ~hostChanged[v]

\* C2: a setter or getter invoked on a closed window returns Err with a
\* non-empty string and does not panic: the application is still running
\* with its handlers installed, so later commands are dispatched.
C2_ClosedWindowErr ==
    [][ ((SetStep \/ GetStep) /\ ~open[last'.win])
        => /\ last'.res.tag = "Err"
           /\ last'.res.val # ""
           /\ pc' = "running"
           /\ panicMsg' = ""
           /\ handlers' = {"greet", "set_always_on_top", "is_always_on_top"} ]_vars

\* A call on a closed window of a supporting platform was answered Err, and
\* the application is running.
C2_Witness ==
    /\ last.cmd \in {"set_always_on_top", "is_always_on_top"}
    /\ supported
    /\ ~open[last.win]
    /\ last.res.tag = "Err"
    /\ last.res.val = "window has been destroyed"
    /\ pc = "running"

\* C3: set_always_on_top makes exactly one request to the host window, for
\* the window and value it was given; it returns Ok(()) exactly when the
\* host accepts that request, and otherwise Err with the rendering of the
\* host's error.
C3_SetterSingleRequest ==
    [][ SetStep
        => /\ Len(hostLog') = 1
           /\ hostLog'[1].op = "set_always_on_top"
           /\ hostLog'[1].win = last'.win
           /\ hostLog'[1].arg = last'.arg
           /\ (last'.res.tag = "Ok") <=> hostLog'[1].ok
           /\ hostLog'[1].ok => last'.res.val = "()"
           /\ ~hostLog'[1].ok => last'.res.val = ToString(hostLog'[1].err) ]_vars

\* The setter was rejected on an unsupporting platform and returned the
\* rendering of that error after one request.
C3_Witness ==
    /\ last.cmd = "set_always_on_top"
    /\ Len(hostLog) = 1
    /\ ~hostLog[1].ok
    /\ hostLog[1].err = "unsupported"
    /\ last.res.tag = "Err"
    /\ last.res.val = "operation not supported on this platform"

\* C4: greet(name) returns "Hello, " then name then
\* "! You've been greeted from Rust!", so the result contains name and both
\* parts of the template, and it is never an error.
C4_GreetFormat ==
    last.cmd = "greet"
    => /\ last.res.tag = "Ok"
       /\ last.res.val =
            <<"H", "e", "l", "l", "o", ",", " ">> \o last.name \o
            <<"!", " ", "Y", "o", "u", "'", "v", "e", " ", "b", "e", "e", "n",
              " ", "g", "r", "e", "e", "t", "e", "d", " ", "f", "r", "o", "m",
              " ", "R", "u", "s", "t", "!">>
       /\ Len(last.res.val) = Len(last.name) + 39
       /\ Contains(last.res.val, last.name)
       /\ SubSeq(last.res.val, 1, 7) = <<"H", "e", "l", "l", "o", ",", " ">>
       /\ SubSeq(last.res.val, 8, 7 + Len(last.name)) = last.name

\* greet("X") was answered "Hello, X! You've been greeted from Rust!".
C4_Witness ==
    /\ last.cmd = "greet"
    /\ last.name = <<"X">>
    /\ last.res.val =
         <<"H", "e", "l", "l", "o", ",", " ", "X", "!", " ", "Y", "o", "u", "'",
           "v", "e", " ", "b", "e", "e", "n", " ", "g", "r", "e", "e", "t", "e",
           "d", " ", "f", "r", "o", "m", " ", "R", "u", "s", "t", "!">>

\* C5: is_always_on_top leaves the host's window state as it was, whether
\* it succeeds or fails; it makes one query; on success it returns the
\* window's flag, on failure Err with the rendering of the host's error.
C5_GetterPure ==
    [][ GetStep
        => /\ flag' = flag
           /\ open' = open
           /\ supported' = supported
           /\ Len(hostLog') = 1
           /\ hostLog'[1].op = "is_always_on_top"
           /\ (last'.res.tag = "Ok") <=> hostLog'[1].ok
           /\ hostLog'[1].ok => last'.res.val = flag[last'.win]
           /\ ~hostLog'[1].ok => last'.res.val = ToString(hostLog'[1].err) ]_vars

\* The getter answered Ok(FALSE) for a window whose flag is FALSE while
\* another window's flag is TRUE.
C5_Witness ==
    /\ last.cmd = "is_always_on_top"
    /\ last.res.tag = "Ok"
    /\ last.res.val = FALSE
    /\ ~flag[last.win]
    /\ \E v \in Windows : v # last.win /\ flag[v]

\* C6: greet changes no window state and makes no request to the host, and
\* two calls with the same name return the same string.
C6_GreetNoSideEffect ==
    [][ GreetStep
        => /\ flag' = flag
           /\ open' = open
           /\ supported' = supported
           /\ hostLog' = <<>>
           /\ \A p \in greeted : p[1] = last'.name => p[2] = last'.res.val ]_vars

\* greet was called with every name, the last time while a window is on top
\* after a successful setter.
C6_Witness ==
    /\ last.cmd = "greet"
    /\ \A n \in Names : \E p \in greeted : p[1] = n
    /\ \E w \in Windows : flag[w] /\ lastSet[w] = {TRUE}
    /\ \E w \in Windows : ~flag[w]

\* C7: after a launch failure run() is at its expect or the process has
\* panicked with the message "error while running tauri application":
\* run() has not returned normally and no command has been dispatched.
C7_LaunchFailureFatal ==
    launch = "failed"
    => /\ pc \in {"expect", "panicked"}
       /\ pc = "panicked" => panicMsg = "error while running tauri application"
       /\ last.cmd = "none"
       /\ ~tick

\* The launch failed and the process panicked with the diagnostic.
C7_Witness ==
    /\ launch = "failed"
    /\ pc = "panicked"
    /\ panicMsg = "error while running tauri application"

\* C8: the value a successful is_always_on_top returns is the host window's
\* flag at that moment, whatever setters were called before; a change made
\* by the host outside the commands is what the getter returns.
C8_NoOwnState ==
    [][ (GetStep /\ last'.res.tag = "Ok")
        => /\ last'.res.val = flag[last'.win]
           /\ last'.res.val = flag'[last'.win] ]_vars

\* The getter returned the opposite of what the last successful setter on
\* that window was given: the host changed the flag in between.
C8_Witness ==
    /\ last.cmd = "is_always_on_top"
    /\ last.res.tag = "Ok"
    /\ lastSet[last.win] # {}
    /\ last.res.val \notin lastSet[last.win]
    /\ hostChanged[last.win]

\* C9: once the application has been started (and so whenever a command
\* has been dispatched) the opener and http plugins are attached, in that
\* order, and the handler holds exactly greet, set_always_on_top and
\* is_always_on_top; a dispatched command is one of them.
C9_BootstrapOrder ==
    (launch # "pending" \/ pc \in {"running", "expect", "returned", "panicked"}
        \/ last.cmd # "none")
    => /\ plugins = <<"opener", "http">>
       /\ handlers = {"greet", "set_always_on_top", "is_always_on_top"}
       /\ last.cmd \in handlers \cup {"none"}

\* Each of the three commands has been dispatched.
C9_Witness ==
    /\ pc = "running"
    /\ last.cmd = "is_always_on_top"
    /\ greeted # {}
    /\ \E w \in Windows : lastSet[w] # {}

\* C10: set_always_on_top for window W asks the host about W, leaves every
\* other window's flag as it was and, when it succeeds, sets W's flag to the
\* value given; is_always_on_top for W asks about W and returns W's flag.
C10_PerCallWindow ==
    [][ /\ SetStep
           => /\ \A v \in Windows \ {last'.win} : flag'[v] = flag[v]
              /\ \A i \in 1..Len(hostLog') : hostLog'[i].win = last'.win
              /\ last'.res.tag = "Ok" => flag'[last'.win] = last'.arg
        /\ GetStep
           => /\ \A i \in 1..Len(hostLog') : hostLog'[i].win = last'.win
              /\ last'.res.tag = "Ok" => last'.res.val = flag[last'.win] ]_vars

\* A setter succeeded on one window right after an earlier successful setter
\* on another, and the two windows hold different flags.
C10_Witness ==
    /\ last.cmd = "set_always_on_top"
    /\ last.res.tag = "Ok"
    /\ \E v \in Windows :
          /\ v # last.win
          /\ lastSet[v] # {} /\ ~hostChanged[v]
          /\ last.arg \notin lastSet[v]
          /\ flag[v] # flag[last.win]

====
